---- MODULE Spec2Model ----
(***************************************************************************)
(* Browser-relay bridge (xhs-browser.ts: getBrowser, evalJs, httpGet,      *)
(* httpPost, sleep) and the listing tool handlers built on it.             *)
(*                                                                         *)
(* Strings of the program are modelled by ASCII stand-ins:                 *)
(*   RateLimitText  for the site's rate-limit marker text (line 95),       *)
(*   ExhaustedText  for the fixed message of line 82.                      *)
(* A URL is the sequence of its path segments; String.includes is the      *)
(* contiguous-subsequence test.                                            *)
(***************************************************************************)
EXTENDS Integers, Sequences, FiniteSets, TLC

VARIABLES browser, windows, call, calls, h, SAVE_DATA_PATH, disk, ret, csv, mcp

vars == <<browser, windows, call, calls, h, SAVE_DATA_PATH, disk, ret, csv, mcp>>
\* the export directory, the disk, the last value returned by a function of
\* the store, the conversion at hand, and the MCP servers of the main process
ioVars == <<SAVE_DATA_PATH, disk, ret, csv, mcp>>
\* the browser session, the bridge calls and the tool invocation
toolVars == <<browser, windows, call, calls, h>>

---------------------------------------------------------------------------
(* Bounds of the model *)

\* captcha waits one bridge call may go through
MaxWaits == 5
\* page requests one handler invocation may issue
MaxRequests == 4
\* pages of data the target site holds for one listing
MaxPages == 2
\* browser windows the process may construct
MaxWindows == 2
\* the servers created in one run of the main process
MaxServers == 2
\* the stop() promises of stop-mcpserver pending at one time
MaxStops == 2

(* Program constants *)

\* evalJs gives up when tryCount > 3
MaxTries == 3
\* seconds slept while the captcha page is shown
CaptchaWait == 3
\* base of the rate-limit back-off, in seconds
BackoffBase == 2

---------------------------------------------------------------------------
(* Values *)

RateLimitText == "RATE_LIMIT_MARKER"
ExhaustedText == "EXEC_FAILED_RETRIED_3_TIMES"

Blank ==
  [type |-> "null", msg |-> "", pg |-> 0, items |-> <<>>, hasMore |-> FALSE,
   cursor |-> 0, success |-> FALSE]

\* null / undefined: the only falsy result
Null == Blank

\* an otherwise-200 body carrying the rate-limit marker text
RateLimited == [Blank EXCEPT !.type = "error", !.msg = RateLimitText]

\* an error body without list fields and without the marker
OtherError == [Blank EXCEPT !.type = "error", !.msg = "other"]

\* the answer of /api/sns/web/v2/user/me
UserMe == [Blank EXCEPT !.type = "user", !.success = TRUE]
\* the answer of /api/sns/web/v1/user/selfinfo
SelfInfo == [Blank EXCEPT !.type = "user", !.msg = "selfinfo", !.success = TRUE]

\* a successful search answer without a users list
NoList == [Blank EXCEPT !.type = "nolist", !.success = TRUE]

\* the answer of an action endpoint that went through
ActionOk == [Blank EXCEPT !.type = "ok", !.success = TRUE]

\* the string evalJs returns when it gives up
ExhaustedMsg == [Blank EXCEPT !.type = "string", !.msg = ExhaustedText]

Truthy(v) == v.type # "null"

\* JSON.stringify(result).includes(marker)
HasMarker(result) == result.msg = RateLimitText

HomeUrl == <<"explore">>
CaptchaUrl == <<"web-login", "captcha">>
LoginUrl == <<"web-login", "qrcode">>
Hrefs == {HomeUrl, CaptchaUrl, LoginUrl, <<>>}

\* String.prototype.includes on URLs
includes(url, pat) ==
  \E i \in 1..(Len(url) - Len(pat) + 1) : SubSeq(url, i, i + Len(pat) - 1) = pat

CaptchaPath == <<"web-login", "captcha">>
LoginPath == <<"web-login">>

\* mutant of sleep: the argument is taken as milliseconds whatever its size
sleep_Millis(tm) == tm

\* sleep(tm): setTimeout(RES, tm > 1000 ? tm : tm * 1000), in milliseconds
sleep(tm) == IF tm > 1000 THEN tm ELSE tm * 1000

---------------------------------------------------------------------------
(* Browser session *)

\* new BrowserWindow({ show: true, ... }) loading the home page; by records
\* the operation that last set the visibility of the window the variable
\* browser holds
NewWindow ==
  [visible |-> TRUE, enabled |-> TRUE, alive |-> TRUE, href |-> HomeUrl,
   by |-> "create"]

\* getBrowser: the cached window when it is enabled, else a new one, which
\* replaces it in the variable browser; the replaced window is left as it is
getBrowser(b, ws) ==
  IF b # 0 /\ ws[b].enabled
  THEN [browser |-> b, windows |-> ws]
  ELSE [browser |-> Len(ws) + 1,
        windows |-> Append(IF b = 0 THEN ws ELSE [ws EXCEPT ![b].by = "replaced"],
                           NewWindow)]

\* browser.show() and browser.hide()
show(w, by) == [w EXCEPT !.visible = TRUE, !.by = by]
hide(w, by) == [w EXCEPT !.visible = FALSE, !.by = by]

\* mutant of didNavigate: only the captcha path shows the window
didNavigate_CaptchaOnly(ws, b, i, url) ==
  LET ws1 == [ws EXCEPT ![i].href = url]
  IN IF Len(url) > 0 /\ includes(url, CaptchaPath)
     THEN [ws1 EXCEPT ![b] = show(@, "did-navigate")]
     ELSE ws1

\* the 'did-navigate' observer of window i: a login/verification URL shows
\* the window the variable browser holds (b)
didNavigate(ws, b, i, url) ==
  LET ws1 == [ws EXCEPT ![i].href = url]
  IN IF Len(url) > 0 /\ includes(url, LoginPath)
     THEN [ws1 EXCEPT ![b] = show(@, "did-navigate")]
     ELSE ws1

\* mutant of onClose: the close is not prevented, the window is destroyed
onClose_NotPrevented(ws, b, i) ==
  [ws EXCEPT ![b] = hide(@, "close"), ![i].alive = FALSE, ![i].enabled = FALSE]

\* the 'close' handler of window i: the close is prevented and the window
\* the variable browser holds (b) is hidden
onClose(ws, b, i) == [ws EXCEPT ![b] = hide(@, "close")]

\* window i of the process navigates to url
Navigate(i, url) ==
  /\ windows[i].alive
  /\ windows[i].href # url
  /\ windows' = didNavigate(windows, browser, i, url)
  /\ UNCHANGED <<browser, call, calls, h>>
  /\ UNCHANGED ioVars

\* the operator clicks the close button of window i, which is on screen
Close(i) ==
  /\ windows[i].alive
  /\ windows[i].visible
  /\ windows' = onClose(windows, browser, i)
  /\ UNCHANGED <<browser, call, calls, h>>
  /\ UNCHANGED ioVars

\* the window the variable browser holds is disabled or enabled again; the
\* flag of a window that getBrowser has replaced is never read again
SetEnabled(enable) ==
  /\ browser # 0
  /\ windows[browser].alive
  /\ windows[browser].enabled # enable
  /\ windows' = [windows EXCEPT ![browser].enabled = enable]
  /\ UNCHANGED <<browser, call, calls, h>>
  /\ UNCHANGED ioVars

\* ipc 'start-mcpserver': getBrowser()
GetBrowser ==
  /\ LET gb == getBrowser(browser, windows)
     IN /\ Len(gb.windows) <= MaxWindows
        /\ browser' = gb.browser
        /\ windows' = gb.windows
  /\ UNCHANGED <<call, calls, h>>
  /\ UNCHANGED ioVars

\* ipc 'toggle-xhs-browser': getBrowser().show()
ToggleBrowser ==
  /\ LET gb == getBrowser(browser, windows)
     IN /\ Len(gb.windows) <= MaxWindows
        /\ browser' = gb.browser
        /\ windows' = [gb.windows EXCEPT ![gb.browser] = show(@, "toggle")]
  /\ UNCHANGED <<call, calls, h>>
  /\ UNCHANGED ioVars

---------------------------------------------------------------------------
(* Remote call bridge: evalJs *)

NoCode == [ep |-> "", key |-> 0]
UserMeCode == [ep |-> "user/me", key |-> 0]
SelfInfoCode == [ep |-> "user/selfinfo", key |-> 0]
Codes == {UserMeCode}

NoCall ==
  [pc |-> "idle", code |-> NoCode, tryCount |-> 0, result |-> Null,
   evals |-> 0, checks |-> 0, clear |-> 0, slept |-> <<>>, resps |-> <<>>,
   seen |-> <<>>, win |-> 0]

\* evalJs(code) with the default tryCount = 0
NewCall(code) == [NoCall EXCEPT !.pc = "enter", !.code = code]

\* mutant of evalJsEnter: the retry limit is off by one
evalJsEnter_OffByOne(c) ==
  IF c.tryCount > MaxTries + 1
  THEN [c EXCEPT !.pc = "ret", !.result = ExhaustedMsg]
  ELSE [c EXCEPT !.pc = "loc"]

\* line 82, then getBrowser and the location query of lines 84-86
evalJsEnter(c) ==
  IF c.tryCount > MaxTries
  THEN [c EXCEPT !.pc = "ret", !.result = ExhaustedMsg]
  ELSE [c EXCEPT !.pc = "loc"]

\* mutant of evalJsLocation: the captcha test is dropped
evalJsLocation_NoCaptchaCheck(c, web_href) ==
  [c EXCEPT !.pc = "exec",
            !.checks = @ + 1,
            !.clear = @ + (IF Len(web_href) > 0 /\ includes(web_href, CaptchaPath) THEN 0 ELSE 1),
            !.seen = web_href,
            !.evals = @ + 1]

\* mutant of evalJsLocation: a captcha wait recurses with tryCount + 1
evalJsLocation_CountsWait(c, web_href) ==
  IF Len(web_href) > 0 /\ includes(web_href, CaptchaPath)
  THEN [c EXCEPT !.pc = "enter",
                 !.tryCount = @ + 1,
                 !.checks = @ + 1,
                 !.seen = web_href,
                 !.slept = Append(@, [ms |-> sleep(CaptchaWait), why |-> "captcha"])]
  ELSE [c EXCEPT !.pc = "exec",
                 !.checks = @ + 1,
                 !.clear = @ + 1,
                 !.seen = web_href,
                 !.evals = @ + 1]

\* lines 86-93: the location answer; on the captcha path sleep and recurse
\* with the same tryCount, else start evaluating the request code
evalJsLocation(c, web_href) ==
  IF Len(web_href) > 0 /\ includes(web_href, CaptchaPath)
  THEN [c EXCEPT !.pc = "enter",
                 !.checks = @ + 1,
                 !.seen = web_href,
                 !.slept = Append(@, [ms |-> sleep(CaptchaWait), why |-> "captcha"])]
  ELSE [c EXCEPT !.pc = "exec",
                 !.checks = @ + 1,
                 !.clear = @ + 1,
                 !.seen = web_href,
                 !.evals = @ + 1]

\* mutant of evalJsResult: the back-off does not grow with tryCount
evalJsResult_FixedBackoff(c, result) ==
  IF Truthy(result) /\ HasMarker(result)
  THEN [c EXCEPT !.pc = "enter",
                 !.tryCount = @ + 1,
                 !.resps = Append(@, TRUE),
                 !.slept = Append(@, [ms |-> sleep(BackoffBase), why |-> "rate"])]
  ELSE [c EXCEPT !.pc = "ret",
                 !.result = result,
                 !.resps = Append(@, FALSE)]

\* mutant of evalJsResult: the answer of the last attempt is returned as it is
evalJsResult_ReturnsLast(c, result) ==
  IF Truthy(result) /\ HasMarker(result) /\ c.tryCount < MaxTries
  THEN [c EXCEPT !.pc = "enter",
                 !.tryCount = @ + 1,
                 !.resps = Append(@, TRUE),
                 !.slept = Append(@, [ms |-> sleep(BackoffBase + c.tryCount), why |-> "rate"])]
  ELSE [c EXCEPT !.pc = "ret",
                 !.result = result,
                 !.resps = Append(@, FALSE)]

\* lines 93-99: the evaluation's answer; on the marker sleep 2 + tryCount
\* and recurse with tryCount + 1, else return the result
evalJsResult(c, result) ==
  IF Truthy(result) /\ HasMarker(result)
  THEN [c EXCEPT !.pc = "enter",
                 !.tryCount = @ + 1,
                 !.resps = Append(@, TRUE),
                 !.slept = Append(@, [ms |-> sleep(BackoffBase + c.tryCount), why |-> "rate"])]
  ELSE [c EXCEPT !.pc = "ret",
                 !.result = result,
                 !.resps = Append(@, FALSE)]

\* executeJavaScript rejects: evalJs has no catch, the rejection reaches the caller
evalJsThrow(c) == [c EXCEPT !.pc = "rej"]

Waits(c) == Cardinality({i \in 1..Len(c.slept) : c.slept[i].why = "captcha"})

\* endpoints of the account information
InfoEndpoints == {"user/me", "user/selfinfo"}
\* endpoints of the like, follow and collect actions
ActionEndpoints ==
  {"note/like", "note/dislike", "user/follow", "user/unfollow",
   "note/collect", "note/uncollect"}
\* endpoints whose answer carries { notes, hasMore, cursor }
NotesEndpoints == {"user_posted", "note/collect/page", "note/like/page"}
\* endpoints paged by a cursor the answer returns
CursorEndpoints == NotesEndpoints \cup {"comment/page", "homefeed"}
\* endpoints paged by a page number
SearchEndpoints == {"search/notes", "search/usersearch"}

PageSizes == {0, 2, 10}

\* the items of page pg: the search feed mixes notes with other model types
PageItems(pg, n, mixed) ==
  [i \in 1..n |->
     [pg |-> pg, ix |-> i,
      modelType |-> IF mixed /\ i % 2 = 1 THEN "hot_query" ELSE "note"]]

Page(pg, n, more, cur, mixed) ==
  [Blank EXCEPT !.type = "page", !.pg = pg, !.items = PageItems(pg, n, mixed),
                !.hasMore = more, !.cursor = cur, !.success = TRUE]

\* the page a request asks for: the one after its cursor, or its page number
PageOf(code) == IF code.ep \in CursorEndpoints THEN code.key + 1 ELSE code.key

Pages(code) ==
  LET pg == PageOf(code)
  IN IF pg > MaxPages
     THEN {Page(pg, 0, FALSE, 0, FALSE)}
     ELSE {Page(pg, n, more, cur, mixed) :
             n \in PageSizes,
             more \in (IF code.ep \in NotesEndpoints THEN BOOLEAN ELSE {FALSE}),
             cur \in (IF code.ep \in CursorEndpoints THEN {0, pg} ELSE {0}),
             mixed \in (IF code.ep = "search/notes" THEN BOOLEAN ELSE {FALSE})}

\* what the target site may answer to a request
Backend(code) ==
  IF code.ep \in InfoEndpoints
  THEN {Null, RateLimited, OtherError,
        IF code.ep = "user/me" THEN UserMe ELSE SelfInfo}
  ELSE IF code.ep \in ActionEndpoints
  THEN {Null, RateLimited, OtherError, ActionOk}
  ELSE {Null, RateLimited, OtherError} \cup Pages(code)
       \cup (IF code.ep = "search/usersearch" THEN {NoList} ELSE {})

---------------------------------------------------------------------------
(* Listing tool handlers: the state of one execute() invocation *)

\* maxRetries of GetUserLikedNotesTool.execute
maxRetries == 3
\* maxRequests of GetCollectNotesTool.execute
maxRequests == 100
\* the largest count SearchNotesTool.execute accepts
MaxSearchCount == 1000

NoOut == [kind |-> "none", items |-> <<>>, action |-> ""]

\* a string input: its length and whether trim() leaves nothing of it
Str(len, blank) == [len |-> len, blank |-> blank]
\* a 24-character ID
ValidId == Str(24, FALSE)
\* the ID arguments tried: '', '   ', a 5-character and a 24-character ID
Ids == {Str(0, TRUE), Str(3, TRUE), Str(5, FALSE), ValidId}
NoInput == [id |-> ValidId, flag |-> TRUE]

IdleHandler ==
  [pc |-> "idle", kind |-> "", count |-> 0, results |-> <<>>, cursor |-> 0,
   current_page |-> 1, note_index |-> 0, loaded_count |-> 0,
   requestCount |-> 0, retryCount |-> 0, req |-> NoCode, out |-> NoOut,
   input |-> NoInput, before |-> "",
   requests |-> 0, served |-> <<>>, slept |-> 0]

NoHandler == [IdleHandler EXCEPT !.pc = "none"]

\* the answer of a bridge call as its awaiting caller sees it
Resolved(v, rnd) == [t |-> "value", v |-> v, rnd |-> rnd]
Rejected == [t |-> "reject", v |-> [Blank EXCEPT !.type = "reject"], rnd |-> 0]

\* typeof v === 'object' of a truthy value
IsObject(v) == v.type \in {"page", "error", "user", "nolist", "ok"}
\* the list property (notes, comments, items, users) is present
HasList(v) == v.type = "page"

\* execute returns the collected rows (CSV, JSON or the array itself)
Return(s, fmt) ==
  [s EXCEPT !.pc = "done", !.out = [NoOut EXCEPT !.kind = fmt, !.items = s.results]]
\* execute returns a message and no rows
ReturnMessage(s, fmt) == [s EXCEPT !.pc = "done", !.out = [NoOut EXCEPT !.kind = fmt]]
\* execute throws: the promise it returned is rejected
Throw(s) == [s EXCEPT !.pc = "done", !.out = [NoOut EXCEPT !.kind = "throw"]]
\* await sleep(..) and the next turn of the loop
Continue(s, ms) == [s EXCEPT !.pc = "loop", !.slept = ms]
\* await httpGet / httpPost; slept restarts: the time slept since this request
Request(s, ep, key) ==
  [s EXCEPT !.pc = "await", !.req = [ep |-> ep, key |-> key], !.requests = @ + 1,
            !.slept = 0]

\* mutant of pushNotes: no item is trimmed
RECURSIVE pushNotes_NoTrim(_, _, _)
pushNotes_NoTrim(results, notes, count) ==
  IF notes = <<>> THEN results
  ELSE pushNotes_NoTrim(Append(results, Head(notes)), Tail(notes), count)

\* mutant of pushNotes: the trim test forgets that count must be positive
RECURSIVE pushNotes_NoPositiveGuard(_, _, _)
pushNotes_NoPositiveGuard(results, notes, count) ==
  IF notes = <<>> THEN results
  ELSE pushNotes_NoPositiveGuard(IF Len(results) >= count
                                 THEN results
                                 ELSE Append(results, Head(notes)),
                                 Tail(notes), count)

\* notes.forEach / for..of: push each note unless count > 0 is reached
RECURSIVE pushNotes(_, _, _)
pushNotes(results, notes, count) ==
  IF notes = <<>> THEN results
  ELSE pushNotes(IF count > 0 /\ Len(results) >= count
                 THEN results
                 ELSE Append(results, Head(notes)),
                 Tail(notes), count)

\* mutant of pushItems: the modelType of an item is not looked at
RECURSIVE pushItems_NoFilter(_, _, _, _)
pushItems_NoFilter(results, items, count, filter) ==
  IF items = <<>> THEN results
  ELSE pushItems_NoFilter(IF Len(results) >= count THEN results
                          ELSE Append(results, Head(items)),
                          Tail(items), count, filter)

\* items.map of the search and feed handlers: push until loaded_count
\* reaches count, keeping only modelType 'note' when filter is set
RECURSIVE pushItems(_, _, _, _)
pushItems(results, items, count, filter) ==
  IF items = <<>> THEN results
  ELSE pushItems(IF Len(results) >= count THEN results
                 ELSE IF filter /\ Head(items).modelType # "note" THEN results
                 ELSE Append(results, Head(items)),
                 Tail(items), count, filter)

\* GetUserPostsTool.execute, one turn of while (true) after the await
GetUserPostsTool_page(s, o) ==
  IF o.t = "reject" THEN ReturnMessage(s, "error")
  ELSE IF ~Truthy(o.v) \/ ~HasList(o.v) \/ Len(o.v.items) = 0 THEN Return(s, "csv")
  ELSE LET s1 == [s EXCEPT !.results = pushNotes(@, o.v.items, s.count)]
           s2 == [s1 EXCEPT !.cursor = o.v.cursor]
       IN IF ~o.v.hasMore THEN Return(s1, "csv")
          ELSE IF s.count # -1 /\ Len(s2.results) >= s.count THEN Return(s2, "csv")
          ELSE Continue(s2, sleep(2))

\* GetuserpostsTool.execute and GetcollectnotesTool.execute (same loop)
Legacy_notes_page(s, o) ==
  IF o.t = "reject" \/ ~Truthy(o.v) THEN ReturnMessage(s, "error")
  ELSE IF ~HasList(o.v) \/ Len(o.v.items) = 0 THEN Return(s, "array")
  ELSE LET s1 == [s EXCEPT !.results = pushNotes(@, o.v.items, s.count)]
           s2 == [s1 EXCEPT !.cursor = o.v.cursor]
       IN IF ~o.v.hasMore THEN Return(s1, "array")
          ELSE IF s.count # -1 /\ Len(s2.results) >= s.count THEN Return(s2, "array")
          ELSE Continue(s2, sleep(2))

\* GetCollectNotesTool.execute: the end of the loop; no rows give a message
GetCollectNotesTool_end(s) ==
  IF Len(s.results) = 0 THEN ReturnMessage(s, "text") ELSE Return(s, "csv")

\* mutant of GetCollectNotesTool_page: requestCount is not incremented
GetCollectNotesTool_page_NoCount(s, o) ==
  IF o.t = "reject" THEN ReturnMessage(s, "error")
  ELSE IF ~Truthy(o.v) \/ ~IsObject(o.v) THEN ReturnMessage(s, "error")
  ELSE IF ~HasList(o.v) \/ Len(o.v.items) = 0 THEN GetCollectNotesTool_end(s)
  ELSE LET s1 == [s EXCEPT !.results = pushNotes(@, o.v.items, s.count)]
           s2 == [s1 EXCEPT !.cursor = o.v.cursor]
       IN IF ~o.v.hasMore THEN GetCollectNotesTool_end(s1)
          ELSE IF s.count # -1 /\ Len(s2.results) >= s.count
               THEN GetCollectNotesTool_end(s2)
          ELSE Continue(s2, sleep(2))

\* GetCollectNotesTool.execute, one turn of while (true) after the await
GetCollectNotesTool_page(s, o) ==
  IF o.t = "reject" THEN ReturnMessage(s, "error")
  ELSE LET s0 == [s EXCEPT !.requestCount = @ + 1]
       IN IF ~Truthy(o.v) \/ ~IsObject(o.v) THEN ReturnMessage(s0, "error")
          ELSE IF ~HasList(o.v) \/ Len(o.v.items) = 0 THEN GetCollectNotesTool_end(s0)
          ELSE LET s1 == [s0 EXCEPT !.results = pushNotes(@, o.v.items, s.count)]
                   s2 == [s1 EXCEPT !.cursor = o.v.cursor]
               IN IF ~o.v.hasMore THEN GetCollectNotesTool_end(s1)
                  ELSE IF s.count # -1 /\ Len(s2.results) >= s.count
                       THEN GetCollectNotesTool_end(s2)
                  ELSE Continue(s2, sleep(2))

\* mutant of the catch: every retry waits the inter-page delay
GetUserLikedNotesTool_catch_FixedDelay(s) ==
  LET s1 == [s EXCEPT !.retryCount = @ + 1]
  IN IF s1.retryCount >= maxRetries
     THEN ReturnMessage(s1, "error")
     ELSE Continue(s1, sleep(2))

\* GetUserLikedNotesTool.execute: the catch of the page-level retry
GetUserLikedNotesTool_catch(s) ==
  LET s1 == [s EXCEPT !.retryCount = @ + 1]
  IN IF s1.retryCount >= maxRetries
     THEN ReturnMessage(s1, "error")
     ELSE Continue(s1, sleep((2 ^ s1.retryCount) * 1000))

\* GetUserLikedNotesTool.execute with fetchLikedNotesPage and processNoteData
GetUserLikedNotesTool_page(s, o) ==
  IF o.t = "reject" \/ ~Truthy(o.v) \/ ~IsObject(o.v)
  THEN GetUserLikedNotesTool_catch(s)
  ELSE IF ~HasList(o.v) \/ Len(o.v.items) = 0 THEN Return(s, "csv")
  ELSE LET s1 == [s EXCEPT !.results = pushNotes(@, o.v.items, s.count)]
       IN IF s.count # -1 /\ Len(s1.results) >= s.count THEN Return(s1, "csv")
          ELSE IF ~o.v.hasMore THEN Return(s1, "csv")
          ELSE Continue([s1 EXCEPT !.cursor = o.v.cursor, !.retryCount = 0], sleep(2))

\* GetNoteCommentsTool.execute (part_023), one turn after the await
GetNoteCommentsTool_page(s, o) ==
  IF o.t = "reject" THEN Return(s, "csv")
  ELSE IF ~Truthy(o.v) \/ ~HasList(o.v) \/ Len(o.v.items) = 0 THEN Return(s, "csv")
  ELSE Continue([s EXCEPT !.results = @ \o o.v.items, !.cursor = o.v.cursor], sleep(2))

\* GetnotecommentsTool.execute (rednote), one turn after the await
GetnotecommentsTool_page(s, o) ==
  IF o.t = "reject" THEN Return(s, "csv")
  ELSE IF ~Truthy(o.v) \/ ~HasList(o.v) THEN ReturnMessage(s, "error")
  ELSE IF Len(o.v.items) = 0 THEN Return(s, "csv")
  ELSE Continue([s EXCEPT !.results = @ \o o.v.items, !.cursor = o.v.cursor], sleep(2))

\* both comment handlers: the count test at the top of the loop
Comments_top(s) ==
  IF s.count # -1 /\ Len(s.results) >= s.count
  THEN Return(s, "csv")
  ELSE Request(s, "comment/page", s.cursor)

\* SearchNotesTool.execute (mcp), one turn of while (loadedCount < count)
SearchNotesTool_page(s, o) ==
  IF o.t = "reject" THEN Return(s, "json")
  ELSE LET s1 == IF Truthy(o.v) /\ HasList(o.v)
                 THEN [s EXCEPT !.results = pushItems(@, o.v.items, s.count, TRUE)]
                 ELSE s
           s2 == [s1 EXCEPT !.loaded_count = Len(s1.results)]
       IN IF s2.loaded_count >= s.count THEN Return(s2, "json")
          ELSE Continue([s2 EXCEPT !.current_page = @ + 1], sleep(2))

\* SearchnotesTool.execute (part_006), one turn of the loop
SearchnotesTool_page(s, o) ==
  IF o.t = "reject" \/ ~Truthy(o.v) \/ ~HasList(o.v) THEN ReturnMessage(s, "error")
  ELSE LET s1 == [s EXCEPT !.results = pushItems(@, o.v.items, s.count, TRUE)]
           s2 == [s1 EXCEPT !.loaded_count = Len(s1.results)]
       IN IF s2.loaded_count >= s.count THEN Return(s2, "csv")
          ELSE Continue([s2 EXCEPT !.current_page = @ + 1], sleep(2))

\* sleep applied to a fraction of seconds given in thousandths
sleepMilli(tm) == IF tm > 1000 * 1000 THEN tm \div 1000 ELSE tm

\* Math.max(2, Math.random() * 2 + 1), in thousandths, for the draws rnd
Rnds == {1000, 2900}
SearchUserDelay(rnd) == IF rnd > 2000 THEN rnd ELSE 2000

\* SearchUserTool.execute (xhs-mcp-server), one turn of the loop
SearchUserTool_page(s, o) ==
  IF o.t = "reject" \/ ~Truthy(o.v) \/ ~o.v.success THEN ReturnMessage(s, "error")
  ELSE LET s1 == IF HasList(o.v)
                 THEN [s EXCEPT !.results = pushItems(@, o.v.items, s.count, FALSE)]
                 ELSE s
           s2 == [s1 EXCEPT !.loaded_count = Len(s1.results)]
       IN IF s2.loaded_count >= s.count THEN Return(s2, "csv")
          ELSE Continue([s2 EXCEPT !.current_page = @ + 1],
                        sleepMilli(SearchUserDelay(o.rnd)))

\* SearchuserTool.execute (mcp), one turn of the loop
SearchuserTool_page(s, o) ==
  IF o.t = "reject" \/ ~Truthy(o.v) \/ ~o.v.success \/ ~HasList(o.v)
  THEN ReturnMessage(s, "error")
  ELSE LET s1 == [s EXCEPT !.results = pushItems(@, o.v.items, s.count, FALSE)]
           s2 == [s1 EXCEPT !.loaded_count = Len(s1.results)]
       IN IF s2.loaded_count >= s.count THEN Return(s2, "csv")
          ELSE Continue([s2 EXCEPT !.current_page = @ + 1], sleep(2))

\* GethomefeedsTool.execute, one turn of the loop
GethomefeedsTool_page(s, o) ==
  IF o.t = "reject" \/ ~Truthy(o.v) \/ ~HasList(o.v) THEN Return(s, "csv")
  ELSE LET s1 == [s EXCEPT !.results = pushItems(@, o.v.items, s.count, FALSE)]
           s2 == [s1 EXCEPT !.loaded_count = Len(s1.results)]
       IN IF s2.loaded_count >= s.count THEN Return(s2, "csv")
          ELSE Continue([s2 EXCEPT !.cursor = o.v.cursor,
                                   !.note_index = Len(o.v.items)], sleep(2))

\* the like / follow / collect action tools
ActionKinds ==
  {"LikeNoteActionTool", "FollowUserTool", "FollowuserTool", "CollectnoteactionTool"}

\* the account information tools that await one call after the other
InfoKinds == {"GetMyInfoTool", "GetselfinfoTool"}

\* mutant of ActionEndpoint: the flag is not looked at
ActionEndpoint_IgnoresFlag(kind, flag) ==
  CASE kind = "LikeNoteActionTool" -> "note/like"
    [] kind \in {"FollowUserTool", "FollowuserTool"} -> "user/follow"
    [] kind = "CollectnoteactionTool" -> "note/collect"

\* the endpoint an action tool posts to
ActionEndpoint(kind, flag) ==
  CASE kind = "LikeNoteActionTool" -> IF flag THEN "note/like" ELSE "note/dislike"
    [] kind \in {"FollowUserTool", "FollowuserTool"} ->
         IF flag THEN "user/follow" ELSE "user/unfollow"
    [] kind = "CollectnoteactionTool" -> IF flag THEN "note/collect" ELSE "note/uncollect"

\* execute of an action tool up to its httpPost: the validation of the ID
Action_start(kind, id, flag) ==
  LET s == [IdleHandler EXCEPT !.pc = "loop", !.kind = kind,
                               !.input = [id |-> id, flag |-> flag]]
  IN CASE kind = "LikeNoteActionTool" ->
            IF id.len = 0 \/ id.blank THEN Throw(s) ELSE s
       [] kind = "FollowUserTool" ->
            IF id.len = 0 \/ id.len # 24 THEN ReturnMessage(s, "error") ELSE s
       [] OTHER -> s

\* await httpPost(...) of an action tool
Action_top(s) == Request(s, ActionEndpoint(s.kind, s.input.flag), 0)

\* the action the returned message or envelope names
ActionName(kind, flag) ==
  CASE kind = "LikeNoteActionTool" -> IF flag THEN "like" ELSE "unlike"
    [] kind \in {"FollowUserTool", "FollowuserTool"} ->
         IF flag THEN "follow" ELSE "unfollow"
    [] kind = "CollectnoteactionTool" -> IF flag THEN "collect" ELSE "uncollect"

\* mutant of Action_page: the resolved value is looked at
Action_page_ChecksValue(s, o) ==
  LET fmt == IF o.t = "reject" \/ ~o.v.success THEN "error"
             ELSE IF s.kind = "FollowUserTool" THEN "json" ELSE "text"
  IN [s EXCEPT !.pc = "done",
               !.out = [NoOut EXCEPT !.kind = fmt,
                                     !.action = ActionName(s.kind, s.input.flag)]]

\* an action tool after its await: any resolved value counts as success
Action_page(s, o) ==
  LET fmt == IF o.t = "reject" THEN "error"
             ELSE IF s.kind = "FollowUserTool" THEN "json" ELSE "text"
  IN [s EXCEPT !.pc = "done",
               !.out = [NoOut EXCEPT !.kind = fmt,
                                     !.action = ActionName(s.kind, s.input.flag)]]

\* GetMyInfoTool / GetselfinfoTool: the first await, then the second
Info_top(s) ==
  Request(s, IF s.requests = 0 THEN "user/me" ELSE "user/selfinfo", 0)

\* GetMyInfoTool / GetselfinfoTool after an await
Info_page(s, o) ==
  IF o.t = "reject" THEN ReturnMessage(s, "error")
  ELSE IF s.requests < 2 THEN [s EXCEPT !.pc = "loop"]
  ELSE ReturnMessage(s, "json")

\* GetUserAccountInfoTool: what settles Promise.all([...]) and what follows
All_settle(s, frames) ==
  IF s.pc # "all" THEN s
  ELSE IF \E i \in 1..Len(frames) : frames[i].pc = "rej"
  THEN ReturnMessage(s, "error")
  ELSE IF \A i \in 1..Len(frames) : frames[i].pc = "ret"
  THEN LET s1 == [s EXCEPT !.served = [i \in 1..Len(frames) |-> frames[i].result]]
       IN IF \E i \in 1..Len(frames) : ~Truthy(frames[i].result)
          THEN ReturnMessage(s1, "error")
          ELSE ReturnMessage(s1, "json")
  ELSE s

Kinds ==
  {"GetUserPostsTool", "GetuserpostsTool", "GetcollectnotesTool",
   "GetCollectNotesTool", "GetUserLikedNotesTool", "GetNoteCommentsTool",
   "GetnotecommentsTool", "SearchNotesTool", "SearchnotesTool",
   "SearchUserTool", "SearchuserTool", "GethomefeedsTool"}

\* the count arguments tried: all pages, another negative, none, fewer and
\* more than one page
Counts == {-2, -1, 0, 5, 12}

\* the count constraints of the tools' input schemas (zod)
SchemaAccepts(kind, count) ==
  CASE kind = "GetUserLikedNotesTool" -> count >= -1
    [] kind \in {"GetNoteCommentsTool", "GetnotecommentsTool"} ->
         count >= -1 /\ count <= 1000
    [] kind = "SearchUserTool" -> count >= 1 /\ count <= 50
    [] OTHER -> TRUE

\* the format of the rows a handler returns
Format(kind) ==
  CASE kind \in {"GetuserpostsTool", "GetcollectnotesTool"} -> "array"
    [] kind = "SearchNotesTool" -> "json"
    [] OTHER -> "csv"

\* the condition of `while (loaded_count < count)`, then the request
While_top(s, ep, key) ==
  IF s.loaded_count < s.count THEN Request(s, ep, key) ELSE Return(s, Format(s.kind))

\* the head of one turn of a handler's loop, up to its await
execute_top(s) ==
  CASE s.kind \in {"GetUserPostsTool", "GetuserpostsTool"} ->
         Request(s, "user_posted", s.cursor)
    [] s.kind = "GetcollectnotesTool" -> Request(s, "note/collect/page", s.cursor)
    [] s.kind = "GetCollectNotesTool" ->
         IF s.requestCount >= maxRequests
         THEN ReturnMessage(s, "error")
         ELSE Request(s, "note/collect/page", s.cursor)
    [] s.kind = "GetUserLikedNotesTool" -> Request(s, "note/like/page", s.cursor)
    [] s.kind \in {"GetNoteCommentsTool", "GetnotecommentsTool"} -> Comments_top(s)
    [] s.kind \in {"SearchNotesTool", "SearchnotesTool"} ->
         While_top(s, "search/notes", s.current_page)
    [] s.kind \in {"SearchUserTool", "SearchuserTool"} ->
         While_top(s, "search/usersearch", s.current_page)
    [] s.kind = "GethomefeedsTool" -> While_top(s, "homefeed", s.cursor)
    [] s.kind \in ActionKinds -> Action_top(s)
    [] s.kind \in InfoKinds -> Info_top(s)

\* the rest of the turn once the awaited call has settled with o
execute_page(s, o) ==
  CASE s.kind = "GetUserPostsTool" -> GetUserPostsTool_page(s, o)
    [] s.kind \in {"GetuserpostsTool", "GetcollectnotesTool"} -> Legacy_notes_page(s, o)
    [] s.kind = "GetCollectNotesTool" -> GetCollectNotesTool_page(s, o)
    [] s.kind = "GetUserLikedNotesTool" -> GetUserLikedNotesTool_page(s, o)
    [] s.kind = "GetNoteCommentsTool" -> GetNoteCommentsTool_page(s, o)
    [] s.kind = "GetnotecommentsTool" -> GetnotecommentsTool_page(s, o)
    [] s.kind = "SearchNotesTool" -> SearchNotesTool_page(s, o)
    [] s.kind = "SearchnotesTool" -> SearchnotesTool_page(s, o)
    [] s.kind = "SearchUserTool" -> SearchUserTool_page(s, o)
    [] s.kind = "SearchuserTool" -> SearchuserTool_page(s, o)
    [] s.kind = "GethomefeedsTool" -> GethomefeedsTool_page(s, o)
    [] s.kind \in ActionKinds -> Action_page(s, o)
    [] s.kind \in InfoKinds -> Info_page(s, o)

\* the validation of count before the loop
execute_start(kind, count) ==
  LET s == [IdleHandler EXCEPT !.pc = "loop", !.kind = kind, !.count = count]
  IN IF kind = "SearchNotesTool" /\ (count <= 0 \/ count > MaxSearchCount)
     THEN ReturnMessage(s, "error")
     ELSE IF kind = "GetCollectNotesTool" /\ count = 0
     THEN ReturnMessage(s, "error")
     ELSE s

\* the settled call as the awaiting handler sees it
Outcome(c, rnd) == IF c.pc = "rej" THEN Rejected ELSE Resolved(c.result, rnd)

Resume(s, o) == execute_page([s EXCEPT !.served = Append(@, o.v)], o)

\* a finished call is handed to its caller: an awaiting handler runs on to
\* its next await or return, a direct caller keeps the settled call
Deliver(c) ==
  IF h.pc = "await"
  THEN /\ \E rnd \in Rnds : h' = Resume(h, Outcome(c, rnd))
       /\ call' = NoCall
  ELSE /\ call' = c
       /\ UNCHANGED h

\* getUserInfo / a tool's httpGet: one bridge call at a time
StartCall(code) ==
  /\ h.pc = "none"
  /\ call.pc \in {"idle", "ret", "rej"}
  /\ call' = NewCall(code)
  /\ UNCHANGED <<browser, windows, calls, h>>
  /\ UNCHANGED ioVars

EvalJsEnter ==
  /\ call.pc = "enter"
  /\ LET c == evalJsEnter(call)
         gb == getBrowser(browser, windows)
     IN IF c.pc = "ret"
        THEN Deliver(c) /\ UNCHANGED <<browser, windows, calls>>
        ELSE /\ Len(gb.windows) <= MaxWindows
             /\ call' = [c EXCEPT !.win = gb.browser]
             /\ browser' = gb.browser
             /\ windows' = gb.windows
             /\ UNCHANGED <<calls, h>>
  /\ UNCHANGED ioVars

EvalJsLocation ==
  /\ call.pc = "loc"
  /\ LET c == evalJsLocation(call, windows[call.win].href)
     IN /\ Waits(c) <= MaxWaits
        /\ call' = c
  /\ UNCHANGED <<browser, windows, calls, h>>
  /\ UNCHANGED ioVars

EvalJsResult(result) ==
  /\ call.pc = "exec"
  /\ LET c == evalJsResult(call, result)
     IN IF c.pc = "ret" THEN Deliver(c) ELSE call' = c /\ UNCHANGED h
  /\ UNCHANGED <<browser, windows, calls>>
  /\ UNCHANGED ioVars

EvalJsThrow ==
  /\ call.pc \in {"loc", "exec"}
  /\ Deliver(evalJsThrow(call))
  /\ UNCHANGED <<browser, windows, calls>>
  /\ UNCHANGED ioVars

---------------------------------------------------------------------------
(* jsonToCsv: a string is the sequence of its characters and name tokens *)

Comma == ","
Quote == "\""
Newline == "\n"
Semicolon == ";"

\* JSON values: strings, numbers, null, arrays, objects (ordered key/value
\* pairs; a key is a string)
Str_(chars) == [t |-> "string", v |-> chars]
Num(n) == [t |-> "number", v |-> n]
Arr(elems) == [t |-> "array", v |-> elems]
Obj(pairs) == [t |-> "object", v |-> pairs]
JsNull == [t |-> "null", v |-> <<>>]
Pair(k, v) == [k |-> k, v |-> v]

\* String.prototype.split(sep)
RECURSIVE split(_, _)
split(str, sep) ==
  IF \A i \in 1..Len(str) : str[i] # sep THEN <<str>>
  ELSE LET i == CHOOSE j \in 1..Len(str) :
                  str[j] = sep /\ \A k \in 1..(j - 1) : str[k] # sep
       IN <<SubSeq(str, 1, i - 1)>> \o split(SubSeq(str, i + 1, Len(str)), sep)

\* Array.prototype.join(sep) on strings
RECURSIVE joinWith(_, _)
joinWith(strs, sep) ==
  IF strs = <<>> THEN <<>>
  ELSE IF Len(strs) = 1 THEN strs[1]
  ELSE strs[1] \o <<sep>> \o joinWith(Tail(strs), sep)

\* mutant of parseField: the header is used as the path
parseField_HeaderAsPath(field) ==
  LET parts == split(field, "@")
  IN [header |-> parts[1], path |-> parts[1]]

\* fields.map: 'header@path', or header and path alike
parseField(field) ==
  LET parts == split(field, "@")
  IN IF Len(parts) = 2
     THEN [header |-> parts[1], path |-> parts[2]]
     ELSE [header |-> parts[1], path |-> parts[1]]

\* part in value, for an object (the paths of the model name no array index)
hasKey(value, part) ==
  value.t = "object" /\ \E i \in 1..Len(value.v) : value.v[i].k = part

\* value[part]
getKey(value, part) ==
  value.v[CHOOSE i \in 1..Len(value.v) : value.v[i].k = part].v

\* the descent along fieldParts: '' as soon as a part is not there
RECURSIVE descend(_, _)
descend(value, fieldParts) ==
  IF fieldParts = <<>> THEN value
  ELSE IF value.t \in {"object", "array"} /\ hasKey(value, Head(fieldParts))
  THEN descend(getKey(value, Head(fieldParts)), Tail(fieldParts))
  ELSE Str_(<<>>)

\* the body of a JSON string: quotes and newlines escaped
RECURSIVE escape(_)
escape(chars) ==
  IF chars = <<>> THEN <<>>
  ELSE (IF Head(chars) = Quote THEN <<"\\", Quote>>
        ELSE IF Head(chars) = Newline THEN <<"\\", "n">>
        ELSE <<Head(chars)>>) \o escape(Tail(chars))

\* JSON.stringify(v)
RECURSIVE JSONstringify(_)
JSONstringify(v) ==
  CASE v.t = "string" -> <<Quote>> \o escape(v.v) \o <<Quote>>
    [] v.t = "number" -> <<ToString(v.v)>>
    [] v.t = "null" -> <<"null">>
    [] v.t = "array" ->
         <<"[">> \o joinWith([i \in 1..Len(v.v) |-> JSONstringify(v.v[i])], Comma)
         \o <<"]">>
    [] v.t = "object" ->
         <<"{">> \o joinWith([i \in 1..Len(v.v) |->
                                <<Quote>> \o escape(v.v[i].k) \o <<Quote, ":">>
                                \o JSONstringify(v.v[i].v)], Comma)
         \o <<"}">>

\* String(v) as Array.prototype.join applies it to an element
RECURSIVE toText(_)
toText(v) ==
  CASE v.t = "string" -> v.v
    [] v.t = "number" -> <<ToString(v.v)>>
    [] v.t = "null" -> <<>>
    [] v.t = "object" -> <<"[object Object]">>
    [] v.t = "array" -> joinWith([i \in 1..Len(v.v) |-> toText(v.v[i])], Comma)

\* value.map(v => typeof v === "object" ? JSON.stringify(v) : v).join(delim)
joinArray(value, arrayDelimiter) ==
  IF value.t = "array"
  THEN Str_(joinWith([i \in 1..Len(value.v) |->
                        IF value.v[i].t \in {"object", "array", "null"}
                        THEN JSONstringify(value.v[i])
                        ELSE toText(value.v[i])], arrayDelimiter))
  ELSE value

\* value.replace(/"/g, '""')
RECURSIVE doubleQuotes(_)
doubleQuotes(chars) ==
  IF chars = <<>> THEN <<>>
  ELSE (IF Head(chars) = Quote THEN <<Quote, Quote>> ELSE <<Head(chars)>>)
       \o doubleQuotes(Tail(chars))

\* String.prototype.includes on characters
hasChar(chars, c) == \E i \in 1..Len(chars) : chars[i] = c

\* mutant of csvQuote: a newline alone does not quote the cell
csvQuote_NoNewline(value) ==
  IF value.t = "string" /\ (hasChar(value.v, Comma) \/ hasChar(value.v, Quote))
  THEN Str_(<<Quote>> \o doubleQuotes(value.v) \o <<Quote>>)
  ELSE value

\* the quoting of a string that holds a comma, a newline or a double quote
csvQuote(value) ==
  IF value.t = "string"
     /\ (hasChar(value.v, Comma) \/ hasChar(value.v, Newline) \/ hasChar(value.v, Quote))
  THEN Str_(<<Quote>> \o doubleQuotes(value.v) \o <<Quote>>)
  ELSE value

\* one cell of a row: the value found, the value after the array step and
\* the text row.join(",") emits for it
cellOf(item, field) ==
  LET found == descend(item, split(parseField(field).path, "."))
      joined == joinArray(found, Semicolon)
  IN [found |-> found, joined |-> joined, text |-> toText(csvQuote(joined))]

\* jsonToCsv(jsonData, fields): the headers and the cells of every row
jsonToCsv(jsonData, fields) ==
  [headers |-> [c \in 1..Len(fields) |-> parseField(fields[c]).header],
   rows |-> [r \in 1..Len(jsonData) |->
               [c \in 1..Len(fields) |-> cellOf(jsonData[r], fields[c])]]]

\* the values tried under note.title and v
CellValues ==
  <<Str_(<<"a">>), Str_(<<"a", Comma, "b">>), Str_(<<"a", Quote, "b">>),
   Str_(<<"a", Newline, "b">>), Str_(<<>>), Num(7), JsNull,
   Arr(<<Str_(<<"a">>), Str_(<<"b">>)>>),
   Arr(<<Str_(<<"a", Comma>>), Num(1)>>),
   Arr(<<Obj(<<Pair(<<"id">>, Num(1))>>), Str_(<<"b">>)>>),
   Obj(<<Pair(<<"id">>, Num(1))>>)>>

\* the item { liked_count: 7, note: { title: v }, v: v }
Item(v) ==
  Obj(<<Pair(<<"liked_count">>, Num(7)),
        Pair(<<"note">>, Obj(<<Pair(<<"title">>, v)>>)),
        Pair(<<"v">>, v)>>)

\* the field specs tried: 'liked_count', 'v', 'note.title',
\* 'title@note.title', 'h@v', 'gone', 'note.gone.x', 'liked_count.x'
FieldSpecs ==
  {<<"liked_count">>, <<"v">>, <<"note", ".", "title">>,
   <<"title", "@", "note", ".", "title">>, <<"h", "@", "v">>, <<"gone">>,
   <<"note", ".", "gone", ".", "x">>, <<"liked_count", ".", "x">>}

\* the conversion not made yet
NotRun == [headers |-> <<>>, rows |-> <<>>]

\* a handler converts its rows
JsonToCsv ==
  /\ csv.out = NotRun
  /\ csv' = [csv EXCEPT !.out = jsonToCsv(csv.jsonData, csv.fields)]
  /\ UNCHANGED <<SAVE_DATA_PATH, disk, ret>>
  /\ UNCHANGED mcp
  /\ UNCHANGED toolVars

---------------------------------------------------------------------------
(* Export directory and configuration file *)

\* the directories the operator may select; '' is no directory
Dirs == {"/data", "/out"}
\* a file name is the sequence of its stem and extensions
Csv == ".csv"
Names == {<<"notes">>, <<"notes", Csv>>, <<"users">>}
Datas == {"id,title", "id,name"}
\* String.prototype.endsWith on file names
endsWith(name, ext) == Len(name) > 0 /\ name[Len(name)] = ext
\* path.join(dir, file)
join(dir, file) == [dir |-> dir, file |-> file]

NoDirText == "SAVE_DIRECTORY_NOT_SET"
NoLink == join("", <<>>)

\* the configuration object: its keys and their values
DefaultConfig == [k \in {"isTest"} |-> FALSE]
\* JSON.stringify(config, null, 2): the text of the object
stringify(config) == [json |-> config]
\* JSON.parse(data)
parse(data) == data.json
\* no such file
Absent == [json |-> <<>>]

\* the configuration files found at start: none, the default one, one with
\* another key, one without isTest
ConfigFiles ==
  {Absent,
   stringify(DefaultConfig),
   stringify([k \in {"isTest", "theme"} |-> IF k = "isTest" THEN TRUE ELSE "dark"]),
   stringify([k \in {"theme"} |-> "light"])}

EmptyDisk == [files |-> {}, config |-> Absent]
NoRet == [op |-> "", arg |-> "", dir |-> "", value |-> "", before |-> EmptyDisk,
          prev |-> [op |-> "", arg |-> ""]]
NoCsv == [fields |-> <<>>, jsonData |-> <<>>, out |-> NotRun]
\* var mcpServer = null: no server made, no stop() pending
NoServers == [mcpServer |-> 0, servers |-> <<>>, stops |-> <<>>]

\* fs.writeFileSync(filePath, data) on the export files
writeFileSync(d, filePath, data) ==
  [d EXCEPT !.files = {f \in @ : f.path # filePath}
                      \cup {[path |-> filePath, data |-> data]}]

\* mutant of downloadCsvData: the directory is not tested
downloadCsvData_NoCheck(dir, d, name, data) ==
  LET filePath == join(dir, IF endsWith(name, Csv) THEN name ELSE Append(name, Csv))
  IN [value |-> [error |-> "", link |-> filePath],
      disk |-> writeFileSync(d, filePath, data)]

\* downloadCsvData(name, data) with SAVE_DATA_PATH = dir on disk d
downloadCsvData(dir, d, name, data) ==
  IF dir = ""
  THEN [value |-> [error |-> NoDirText, link |-> NoLink], disk |-> d]
  ELSE LET filePath == join(dir, IF endsWith(name, Csv) THEN name ELSE Append(name, Csv))
       IN [value |-> [error |-> "", link |-> filePath],
           disk |-> writeFileSync(d, filePath, data)]

\* saveConfig(config)
saveConfig(d, config) == [d EXCEPT !.config = stringify(config)]

\* mutant of loadConfig: the default is returned and not written
loadConfig_NoSave(d) ==
  IF d.config = Absent
  THEN [value |-> DefaultConfig, disk |-> d]
  ELSE [value |-> parse(d.config), disk |-> d]

\* loadConfig(): the stored object, or the default one after writing it
loadConfig(d) ==
  IF d.config = Absent
  THEN [value |-> DefaultConfig, disk |-> saveConfig(d, DefaultConfig)]
  ELSE [value |-> parse(d.config), disk |-> d]

\* conf['isTest'] = arg
setIsTest(conf, arg) ==
  [k \in DOMAIN conf \cup {"isTest"} |-> IF k = "isTest" THEN arg ELSE conf[k]]

\* !!conf.isTest
joinedTest(conf) == IF "isTest" \in DOMAIN conf THEN conf["isTest"] ELSE FALSE

\* the call just made: its name, argument, value, the directory and the
\* disk it found, and the call before it
Called(op, arg, value) ==
  [op |-> op, arg |-> arg, dir |-> SAVE_DATA_PATH, value |-> value,
   before |-> disk, prev |-> [op |-> ret.op, arg |-> ret.arg]]

\* ipc 'start-mcpserver': setSaveDataPath(arg['savePath'])
SetSaveDataPath(path) ==
  /\ SAVE_DATA_PATH' = path
  /\ ret' = Called("setSaveDataPath", path, "")
  /\ UNCHANGED <<disk, csv>>
  /\ UNCHANGED mcp
  /\ UNCHANGED toolVars

\* a handler asked to download: downloadCsvData(name, data)
DownloadCsvData(name, data) ==
  /\ LET r == downloadCsvData(SAVE_DATA_PATH, disk, name, data)
     IN /\ disk' = r.disk
        /\ ret' = Called("downloadCsvData", name, r.value)
  /\ UNCHANGED <<SAVE_DATA_PATH, csv>>
  /\ UNCHANGED mcp
  /\ UNCHANGED toolVars

\* ipc 'check-update': loadConfig().isTest
LoadConfig ==
  /\ LET r == loadConfig(disk)
     IN /\ disk' = r.disk
        /\ ret' = Called("loadConfig", "", r.value)
  /\ UNCHANGED <<SAVE_DATA_PATH, csv>>
  /\ UNCHANGED mcp
  /\ UNCHANGED toolVars

\* ipc 'set-joined-test'
SetJoinedTest(arg) ==
  /\ LET r == loadConfig(disk)
     IN /\ disk' = saveConfig(r.disk, setIsTest(r.value, arg))
        /\ ret' = Called("set-joined-test", arg, "")
  /\ UNCHANGED <<SAVE_DATA_PATH, csv>>
  /\ UNCHANGED mcp
  /\ UNCHANGED toolVars

\* ipc 'get-joined-test'
GetJoinedTest ==
  /\ LET r == loadConfig(disk)
     IN /\ disk' = r.disk
        /\ ret' = Called("get-joined-test", "", joinedTest(r.value))
  /\ UNCHANGED <<SAVE_DATA_PATH, csv>>
  /\ UNCHANGED mcp
  /\ UNCHANGED toolVars

\* var SAVE_DATA_PATH = '' and nothing exported, called or converted yet
InitIo ==
  /\ SAVE_DATA_PATH = ""
  /\ disk = EmptyDisk
  /\ ret = NoRet
  /\ csv = NoCsv
  /\ mcp = NoServers

---------------------------------------------------------------------------
(* The MCP server handle of the main process: ipc start-mcpserver and
   stop-mcpserver over the servers of the framework *)

\* a server just made by CreateMCPServer(arg) and started: start() is not
\* awaited, IsRunning may be set within the call or later
NewServer(up) == [IsRunning |-> up, stopped |-> FALSE]

\* server.stop(): IsRunning may be cleared within the call or when the
\* promise it returns settles
stop(srv, now) == [srv EXCEPT !.stopped = TRUE, !.IsRunning = IF now THEN FALSE ELSE @]

\* mcpServer && mcpServer.IsRunning
Running(m) == m.mcpServer # 0 /\ m.servers[m.mcpServer].IsRunning

\* ipc 'start-mcpserver': the body of the promise, run in one turn
StartMcpServer(savePath, up, now) ==
  /\ Len(mcp.servers) < MaxServers
  /\ LET old == IF Running(mcp)
                THEN [mcp.servers EXCEPT ![mcp.mcpServer] = stop(@, now)]
                ELSE mcp.servers
         gb == getBrowser(browser, windows)
     IN /\ mcp' = [mcp EXCEPT !.servers = Append(old, NewServer(up)),
                              !.mcpServer = Len(old) + 1]
        /\ browser' = gb.browser
        /\ windows' = gb.windows
  /\ SAVE_DATA_PATH' = savePath
  /\ ret' = Called("start-mcpserver", savePath, IF up THEN "started" ELSE "failed")
  /\ UNCHANGED <<call, calls, h, disk, csv>>

\* ipc 'stop-mcpserver' up to mcpServer.stop(): the callbacks are pending
StopMcpServer(now) ==
  /\ IF Running(mcp)
     THEN /\ Len(mcp.stops) < MaxStops
          /\ mcp' = [mcp EXCEPT !.servers[mcp.mcpServer] = stop(@, now),
                                !.stops = Append(@, mcp.mcpServer)]
          /\ UNCHANGED ret
     ELSE /\ ret' = Called("stop-mcpserver", "", "not started")
          /\ UNCHANGED mcp
  /\ UNCHANGED <<SAVE_DATA_PATH, disk, csv>>
  /\ UNCHANGED toolVars

\* the sequence without its k-th element
Without(seq, k) == SubSeq(seq, 1, k - 1) \o SubSeq(seq, k + 1, Len(seq))

\* the k-th pending stop() resolves: the then-callback of stop-mcpserver
StopResolved(k) ==
  /\ mcp' = [mcp EXCEPT !.servers[mcp.stops[k]].IsRunning = FALSE,
                        !.mcpServer = 0,
                        !.stops = Without(@, k)]
  /\ ret' = Called("stop-mcpserver", "", "stopped")
  /\ UNCHANGED <<SAVE_DATA_PATH, disk, csv>>
  /\ UNCHANGED toolVars

\* the k-th pending stop() rejects: the catch-callback of stop-mcpserver
StopRejected(k) ==
  /\ mcp' = [mcp EXCEPT !.stops = Without(@, k)]
  /\ ret' = Called("stop-mcpserver", "", "stop failed")
  /\ UNCHANGED <<SAVE_DATA_PATH, disk, csv>>
  /\ UNCHANGED toolVars

\* start() of server i completes
ServerUp(i) ==
  /\ ~mcp.servers[i].IsRunning
  /\ ~mcp.servers[i].stopped
  /\ mcp' = [mcp EXCEPT !.servers[i].IsRunning = TRUE]
  /\ UNCHANGED <<SAVE_DATA_PATH, disk, ret, csv>>
  /\ UNCHANGED toolVars

\* a stop() of server i that start-mcpserver did not await completes
ServerDown(i) ==
  /\ mcp.servers[i].IsRunning
  /\ mcp.servers[i].stopped
  /\ mcp' = [mcp EXCEPT !.servers[i].IsRunning = FALSE]
  /\ UNCHANGED <<SAVE_DATA_PATH, disk, ret, csv>>
  /\ UNCHANGED toolVars

NextServer ==
  \/ \E savePath \in Dirs, up \in BOOLEAN, now \in BOOLEAN :
       StartMcpServer(savePath, up, now)
  \/ \E now \in BOOLEAN : StopMcpServer(now)
  \/ \E k \in 1..Len(mcp.stops) : StopResolved(k)
  \/ \E k \in 1..Len(mcp.stops) : StopRejected(k)
  \/ \E i \in 1..Len(mcp.servers) : ServerUp(i)
  \/ \E i \in 1..Len(mcp.servers) : ServerDown(i)

---------------------------------------------------------------------------
(* Specification of the bridge with a direct caller *)

InitBridge ==
  /\ browser = 0
  /\ windows = <<>>
  /\ call = NoCall
  /\ calls = <<>>
  /\ h = NoHandler
  /\ InitIo

NextBridge ==
  \/ \E code \in Codes : StartCall(code)
  \/ \E i \in 1..Len(windows), url \in Hrefs : Navigate(i, url)
  \/ EvalJsEnter
  \/ EvalJsLocation
  \/ \E result \in Backend(call.code) : EvalJsResult(result)
  \/ EvalJsThrow

SpecBridge == InitBridge /\ [][NextBridge]_vars

---------------------------------------------------------------------------
(* Specification of the browser session: the bridge with a direct caller, *)
(* the operator at the windows and the ipc handlers of the main process   *)

\* the target site answers every request of the watched session with the
\* account: the retries of the bridge are the subject of SpecBridge
NextSession ==
  \/ \E code \in Codes : StartCall(code)
  \/ \E i \in 1..Len(windows), url \in Hrefs : Navigate(i, url)
  \/ \E i \in 1..Len(windows) : Close(i)
  \/ \E enable \in BOOLEAN : SetEnabled(enable)
  \/ GetBrowser
  \/ ToggleBrowser
  \/ EvalJsEnter
  \/ EvalJsLocation
  \/ EvalJsResult(UserMe)
  \/ EvalJsThrow

SpecSession == InitBridge /\ [][NextSession]_vars

---------------------------------------------------------------------------
(* Specification of the listing handlers over the bridge *)

\* a tool invocation: execute(input) up to the head of its loop
StartHandler(kind, count) ==
  /\ h.pc = "idle"
  /\ SchemaAccepts(kind, count)
  /\ h' = execute_start(kind, count)
  /\ UNCHANGED <<browser, windows, call, calls>>
  /\ UNCHANGED ioVars

\* the head of one turn of the loop: return, or issue the page request,
\* in runs of at most cap requests
HandlerTurn(cap) ==
  /\ h.pc = "loop"
  /\ LET s == execute_top(h)
     IN /\ s.requests <= cap
        /\ h' = s
        /\ call' = IF s.pc = "await" THEN NewCall(s.req) ELSE call
  /\ UNCHANGED <<browser, windows, calls>>
  /\ UNCHANGED ioVars

HandlerLoop == HandlerTurn(MaxRequests)

Init ==
  /\ browser = 0
  /\ windows = <<>>
  /\ call = NoCall
  /\ calls = <<>>
  /\ h = IdleHandler
  /\ InitIo

Next ==
  \/ \E kind \in Kinds, count \in Counts : StartHandler(kind, count)
  \/ HandlerLoop
  \/ EvalJsEnter
  \/ EvalJsLocation
  \/ \E result \in Backend(call.code) : EvalJsResult(result)
  \/ EvalJsThrow

Spec == Init /\ [][Next]_vars

---------------------------------------------------------------------------
(* Specification of the collected-notes handler against a site whose pages
   do not end *)

\* what such a site may answer: a page of 2 notes or none, with or without
\* more to come, under an advancing cursor; nothing; an error
EndlessSite(code) ==
  {Null, OtherError}
  \cup {Page(PageOf(code), n, more, PageOf(code), FALSE) :
          n \in {0, 2}, more \in BOOLEAN}

\* the loop of the handler, left to the limit the handler sets itself
CollectLoop == HandlerTurn(maxRequests + 1)

NextCollect ==
  \/ \E count \in Counts : StartHandler("GetCollectNotesTool", count)
  \/ CollectLoop
  \/ EvalJsEnter
  \/ EvalJsLocation
  \/ \E result \in EndlessSite(call.code) : EvalJsResult(result)
  \/ EvalJsThrow

SpecCollect == Init /\ [][NextCollect]_vars

---------------------------------------------------------------------------
(* Specification of the action and account tools over the bridge *)

\* LikeNoteActionTool, FollowUserTool, FollowuserTool, CollectnoteactionTool
\* invoked first or after another action tool has returned: execute keeps
\* nothing between invocations; before is the endpoint of the previous one
StartAction(kind, id, flag) ==
  /\ h.pc = "idle" \/ (h.pc = "done" /\ h.kind \in ActionKinds)
  /\ h' = [Action_start(kind, id, flag) EXCEPT !.before = h.req.ep]
  /\ UNCHANGED <<browser, windows, call, calls>>
  /\ UNCHANGED ioVars

\* GetMyInfoTool, GetselfinfoTool
StartInfo(kind) ==
  /\ h.pc = "idle"
  /\ h' = [IdleHandler EXCEPT !.pc = "loop", !.kind = kind]
  /\ UNCHANGED <<browser, windows, call, calls>>
  /\ UNCHANGED ioVars

\* GetUserAccountInfoTool: both httpGet calls run to their first await
\* before Promise.all is awaited
StartAll ==
  /\ h.pc = "idle"
  /\ LET gb == getBrowser(browser, windows)
     IN /\ Len(gb.windows) <= MaxWindows
        /\ browser' = gb.browser
        /\ windows' = gb.windows
        /\ calls' = <<[evalJsEnter(NewCall(UserMeCode)) EXCEPT !.win = gb.browser],
                      [evalJsEnter(NewCall(SelfInfoCode)) EXCEPT !.win = gb.browser]>>
  /\ h' = [IdleHandler EXCEPT !.pc = "all", !.kind = "GetUserAccountInfoTool",
                              !.requests = 2]
  /\ UNCHANGED call
  /\ UNCHANGED ioVars

\* mutant of AllSet: the retry counter is one variable shared by the calls
AllSet_SharedCount(i, c) ==
  /\ calls' = [j \in 1..Len(calls) |->
                IF j = i THEN c ELSE [calls[j] EXCEPT !.tryCount = c.tryCount]]
  /\ h' = All_settle(h, calls')
  /\ UNCHANGED call

\* a step of the i-th call of Promise.all: the same code as a single call
AllSet(i, c) ==
  /\ calls' = [calls EXCEPT ![i] = c]
  /\ h' = All_settle(h, calls')
  /\ UNCHANGED call

AllEnter(i) ==
  /\ calls[i].pc = "enter"
  /\ LET c == evalJsEnter(calls[i])
         gb == getBrowser(browser, windows)
     IN IF c.pc = "ret"
        THEN AllSet(i, c) /\ UNCHANGED <<browser, windows>>
        ELSE /\ Len(gb.windows) <= MaxWindows
             /\ AllSet(i, [c EXCEPT !.win = gb.browser])
             /\ browser' = gb.browser
             /\ windows' = gb.windows
  /\ UNCHANGED ioVars

AllLocation(i) ==
  /\ calls[i].pc = "loc"
  /\ LET c == evalJsLocation(calls[i], windows[calls[i].win].href)
     IN /\ Waits(c) <= MaxWaits
        /\ AllSet(i, c)
  /\ UNCHANGED <<browser, windows>>
  /\ UNCHANGED ioVars

AllResult(i, result) ==
  /\ calls[i].pc = "exec"
  /\ AllSet(i, evalJsResult(calls[i], result))
  /\ UNCHANGED <<browser, windows>>
  /\ UNCHANGED ioVars

AllThrow(i) ==
  /\ calls[i].pc \in {"loc", "exec"}
  /\ AllSet(i, evalJsThrow(calls[i]))
  /\ UNCHANGED <<browser, windows>>
  /\ UNCHANGED ioVars

NextTools ==
  \/ \E kind \in ActionKinds, id \in Ids, flag \in BOOLEAN : StartAction(kind, id, flag)
  \/ \E kind \in InfoKinds : StartInfo(kind)
  \/ StartAll
  \/ HandlerLoop
  \/ EvalJsEnter
  \/ EvalJsLocation
  \/ \E result \in Backend(call.code) : EvalJsResult(result)
  \/ EvalJsThrow
  \/ \E i \in 1..Len(calls) : AllEnter(i)
  \/ \E i \in 1..Len(calls) : AllLocation(i)
  \/ \E i \in 1..Len(calls) : \E result \in Backend(calls[i].code) : AllResult(i, result)
  \/ \E i \in 1..Len(calls) : AllThrow(i)

SpecTools == Init /\ [][NextTools]_vars

---------------------------------------------------------------------------
(* Specification of the export directory and the configuration file *)

InitStore ==
  /\ browser = 0
  /\ windows = <<>>
  /\ call = NoCall
  /\ calls = <<>>
  /\ h = NoHandler
  /\ SAVE_DATA_PATH = ""
  /\ disk \in {[EmptyDisk EXCEPT !.config = c] : c \in ConfigFiles}
  /\ ret = NoRet
  /\ mcp = NoServers
  /\ csv = NoCsv

NextStore ==
  \/ \E path \in Dirs \cup {""} : SetSaveDataPath(path)
  \/ \E name \in Names, data \in Datas : DownloadCsvData(name, data)
  \/ LoadConfig
  \/ \E arg \in BOOLEAN : SetJoinedTest(arg)
  \/ GetJoinedTest

SpecStore == InitStore /\ [][NextStore]_vars

---------------------------------------------------------------------------
(* Specification of jsonToCsv on one item and one or two fields *)

InitCsv ==
  /\ browser = 0
  /\ windows = <<>>
  /\ call = NoCall
  /\ calls = <<>>
  /\ h = NoHandler
  /\ SAVE_DATA_PATH = ""
  /\ disk = EmptyDisk
  /\ ret = NoRet
  /\ mcp = NoServers
  /\ \E i \in 1..Len(CellValues), f \in FieldSpecs, g \in FieldSpecs :
       \E fields \in {<<f>>, <<f, g>>} :
         csv = [NoCsv EXCEPT !.jsonData = <<Item(CellValues[i])>>, !.fields = fields]

NextCsv == JsonToCsv

SpecCsv == InitCsv /\ [][NextCsv]_vars

---------------------------------------------------------------------------
(* Specification of the MCP server handle *)

SpecServer == InitBridge /\ [][NextServer]_vars

---------------------------------------------------------------------------
(* Properties of the bridge *)

OnCaptcha(url) == Len(url) > 0 /\ includes(url, CaptchaPath)

RateSleeps(c) ==
  LET r == SelectSeq(c.slept, LAMBDA e : e.why = "rate")
  IN [i \in 1..Len(r) |-> r[i].ms]

\* C1: an attempt whose location check reads the captcha path neither
\* evaluates the request code nor returns: every evaluation in flight and
\* every returned value follows a check that read a non-captcha location,
\* evaluations and non-captcha checks correspond one to one, and a returned
\* value is the answer of such an evaluation or the fixed exhausted message.
C1_NoVerificationSurfaced ==
  /\ call.pc \in {"exec", "ret"} => ~OnCaptcha(call.seen)
  /\ OnCaptcha(call.seen) /\ call.pc # "idle" => call.pc \in {"enter", "loc", "rej"}
  /\ call.evals = call.clear
  /\ call.checks = call.clear + Waits(call)
  /\ call.pc = "ret" =>
       \/ call.result = ExhaustedMsg /\ call.tryCount > 3
       \/ /\ call.evals > 0
          /\ call.result \in Backend(call.code)
          /\ ~(Truthy(call.result) /\ HasMarker(call.result))

C1_Witness ==
  /\ call.pc = "ret"
  /\ Waits(call) >= 2
  /\ call.result = UserMe

\* C2: while every location check of a call has read the captcha path (and
\* none was rejected), the call is pending, has evaluated nothing, keeps
\* retry count 0 and has slept exactly one 3000 ms wait per check.
C2_VerificationWaitsForever ==
  (call.pc \notin {"idle", "rej"} /\ call.clear = 0) =>
     /\ call.pc \in {"enter", "loc"}
     /\ call.evals = 0
     /\ call.tryCount = 0
     /\ Len(call.slept) = call.checks
     /\ \A i \in 1..Len(call.slept) : call.slept[i] = [ms |-> 3000, why |-> "captcha"]

C2_Witness ==
  /\ call.clear = 0
  /\ call.checks = 5
  /\ call.pc = "loc"

\* C3: a call whose first three evaluations answer with the marker and whose
\* fourth answers clean has returned that clean answer after exactly four
\* evaluations, and its back-off sleeps are 2000, 3000, 4000 ms.
C3_FourthAttemptSucceeds ==
  call.resps = <<TRUE, TRUE, TRUE, FALSE>> =>
     /\ call.pc = "ret"
     /\ call.evals = 4
     /\ call.result # ExhaustedMsg
     /\ call.result \in Backend(call.code)
     /\ ~(Truthy(call.result) /\ HasMarker(call.result))
     /\ RateSleeps(call) = <<2000, 3000, 4000>>
     /\ \A i \in 1..2 : RateSleeps(call)[i] < RateSleeps(call)[i + 1]

C3_Witness ==
  /\ call.resps = <<TRUE, TRUE, TRUE, FALSE>>
  /\ call.result = UserMe
  /\ Waits(call) = 0

\* C4: the request code is evaluated at most 4 times, for retry counts 0..3;
\* after the k-th marker answer the back-off sleeps are 2000..(1000 + 1000k);
\* once the retry count exceeds 3 the call only returns the fixed message;
\* and a call takes one location check per evaluation or captcha wait, so
\* without captcha waits it ends within 4 attempts.
C4_RateLimitRetryBounded ==
  /\ call.evals <= 4
  /\ call.tryCount <= 4
  /\ call.checks = call.evals + Waits(call)
  /\ call.evals <= call.tryCount + 1
  /\ RateSleeps(call) = [i \in 1..call.tryCount |-> 1000 * (i + 1)]
  /\ call.tryCount > 3 =>
       /\ call.pc \in {"enter", "ret"}
       /\ call.evals = 4
       /\ call.resps = <<TRUE, TRUE, TRUE, TRUE>>
       /\ call.pc = "ret" => call.result = ExhaustedMsg
  /\ call.pc = "ret" /\ call.result = ExhaustedMsg => call.tryCount = 4

C4_Witness ==
  /\ call.pc = "ret"
  /\ call.result = ExhaustedMsg
  /\ call.evals = 4
  /\ Waits(call) = 0
  /\ RateSleeps(call) = <<2000, 3000, 4000, 5000>>

\* the marker-bearing responses the call has received
Markers(c) == Cardinality({i \in 1..Len(c.resps) : c.resps[i]})

\* C28: the retry count of a call is the number of marker-bearing responses
\* it has received, whatever verification waits lie in between: a wait adds
\* a sleep and no retry, and a call that returned the retry-exhausted
\* message has received 4 marker-bearing responses.
C28_WaitsKeepBudget ==
  /\ call.tryCount = Markers(call)
  /\ Len(call.slept) = Markers(call) + Waits(call)
  /\ (call.pc = "ret" /\ call.result = ExhaustedMsg) => Markers(call) = 4

C28_Witness ==
  /\ call.pc = "ret"
  /\ call.result = ExhaustedMsg
  /\ Markers(call) = 4
  /\ Waits(call) >= 2
  /\ call.slept[1].why = "captcha"
  /\ \E i \in 1..Len(call.slept), j \in 1..Len(call.slept) :
       i < j /\ call.slept[i].why = "rate" /\ call.slept[j].why = "captcha"

\* C33: a value evalJs returns never carries the rate-limit marker: it is
\* the fixed retry-exhausted message, or an answer of the site to the
\* call's request code in which the marker does not occur.
C33_NoMarkerReturned ==
  call.pc = "ret"
  => /\ call.result.msg # RateLimitText
     /\ \/ call.result = ExhaustedMsg
        \/ call.result \in Backend(call.code) \ {RateLimited}

C33_Witness ==
  /\ call.pc = "ret"
  /\ call.result = OtherError
  /\ Markers(call) = 2

---------------------------------------------------------------------------
(* Properties of the listing handlers *)

Last(seq) == seq[Len(seq)]

\* the handlers whose page answer carries { notes, hasMore, cursor }
HasMoreKinds ==
  {"GetUserPostsTool", "GetuserpostsTool", "GetcollectnotesTool",
   "GetCollectNotesTool", "GetUserLikedNotesTool"}

\* C5: a handler invoked with a positive count N never returns more than N
\* items, whatever the sizes of the pages.
C5_NeverMoreThanCount ==
  (h.pc = "done" /\ h.count > 0) => Len(h.out.items) <= h.count

\* C6: once the answer served last says there are no further pages (hasMore
\* false, or an empty page past the last page of data the site holds), the
\* invocation has terminated and returned what it collected.
C6_StopsWhenNoFurtherPages ==
  (/\ h.served # <<>>
   /\ Last(h.served).type = "page"
   /\ \/ h.kind \in HasMoreKinds /\ ~Last(h.served).hasMore
      \/ Len(Last(h.served).items) = 0 /\ Last(h.served).pg > MaxPages)
  => (h.pc = "done" /\ h.out.items = h.results)

C9_PartialProgressKept ==
  (/\ h.served # <<>>
   /\ Last(h.served) = ExhaustedMsg
   /\ Len(h.results) > 0)
  => (h.pc = "done" /\ h.out.items = h.results)

\* C10: when the page-level retry of the liked-notes handler is exhausted
\* after some pages succeeded, the handler returns the items collected from
\* those pages.
C10_RetryExhaustedKeepsItems ==
  (/\ h.kind = "GetUserLikedNotesTool"
   /\ h.pc = "done"
   /\ h.retryCount >= maxRetries
   /\ Len(h.results) > 0)
  => (h.out.kind = "csv" /\ h.out.items = h.results)

\* the handlers that take count = -1 as 'fetch all'
FetchAllKinds == HasMoreKinds \cup {"GetNoteCommentsTool", "GetnotecommentsTool"}

\* C11: a listing handler invoked with count = 0 issues no bridge call and
\* returns no item rows.
C11_ZeroCountNoCall ==
  (h.kind \in Kinds /\ h.count = 0)
  => (h.requests = 0 /\ (h.pc = "done" => h.out.items = <<>>))

\* C12: a handler that takes -1 as 'fetch all' and is invoked with another
\* negative count issues no bridge call and ends with an error message and
\* no items.
C12_OtherNegativeRejected ==
  (h.kind \in FetchAllKinds /\ h.count < -1)
  => (/\ h.requests = 0
      /\ h.pc = "done" => (h.out.kind = "error" /\ h.out.items = <<>>))

SearchNotesKinds == {"SearchNotesTool", "SearchnotesTool"}

\* a full page of the search feed that holds notes only
FullNotePage(v) ==
  /\ v.type = "page"
  /\ Len(v.items) = 10
  /\ \A i \in 1..Len(v.items) : v.items[i].modelType = "note"

\* C23: the search-notes handlers collect and count items of modelType
\* 'note' only; asked for more items than one full page of notes holds and
\* fewer than two, against a site that answers with full pages of notes,
\* they issue two page requests and return exactly the count asked for.
C23_SearchNotesTwoPages ==
  h.kind \in SearchNotesKinds
  => /\ \A i \in 1..Len(h.results) : h.results[i].modelType = "note"
     /\ h.pc = "loop" => h.loaded_count = Len(h.results)
     /\ (/\ h.count = 12
         /\ h.pc = "done"
         /\ \A i \in 1..Len(h.served) : FullNotePage(h.served[i]))
        => /\ h.requests = 2
           /\ Len(h.out.items) = 12
           /\ \A i \in 1..12 : h.out.items[i].modelType = "note"

C23_Witness ==
  /\ h.kind = "SearchNotesTool"
  /\ h.count = 12
  /\ h.pc = "done"
  /\ Len(h.served) = 2
  /\ \A i \in 1..2 : FullNotePage(h.served[i])
  /\ h.requests = 2
  /\ Len(h.out.items) = 12

\* the page answers among the answers served to the handler so far
PageAnswers(served) == {i \in 1..Len(served) : served[i].type = "page"}

\* the cursor of the most recent page answer, the empty cursor if none
LastCursor(served) ==
  IF PageAnswers(served) = {} THEN 0
  ELSE served[CHOOSE i \in PageAnswers(served) :
                \A j \in PageAnswers(served) : j <= i].cursor

\* a request of a cursor-paged handler is awaiting its answer
CursorRequest == h.pc = "await" /\ h.req.ep \in CursorEndpoints

\* the request carries the cursor of the most recent page answer
CursorThreaded == CursorRequest => h.req.key = LastCursor(h.served)

\* C29: every page request of a cursor-paged handler carries the cursor of
\* the most recent page answer (the empty cursor on the first request), and
\* it never asks for a page that an earlier request of the same invocation
\* was already answered with.
C29_CursorNeverFallsBack ==
  /\ CursorThreaded
  /\ CursorRequest
     => \A i \in PageAnswers(h.served) : h.served[i].pg # PageOf(h.req)

\* C30: a listing handler that has issued a page request and is at the head
\* of another turn of its loop has slept at least 2000 ms since that
\* request, after a page it processed and after a page-level retry alike.
C30_SleepsBetweenRequests ==
  (h.kind \in Kinds /\ h.pc = "loop" /\ h.requests >= 1) => h.slept >= 2000

C30_Witness ==
  /\ h.kind = "GetUserLikedNotesTool"
  /\ h.pc = "loop"
  /\ h.requests = 3
  /\ Len(h.results) > 0
  /\ h.retryCount = 2
  /\ h.slept = 4000

\* an answer that fetchLikedNotesPage turns into an exception: the call was
\* rejected, or what it resolved to is falsy or not an object
FailedAttempt(v) == v.type \in {"reject", "null", "string"}

\* the failed attempts at the end of the answers served so far
RECURSIVE TrailingFailures(_)
TrailingFailures(served) ==
  IF served = <<>> \/ ~FailedAttempt(Last(served)) THEN 0
  ELSE 1 + TrailingFailures(SubSeq(served, 1, Len(served) - 1))

LikedRunning == h.kind = "GetUserLikedNotesTool" /\ h.pc \in {"loop", "await"}

\* C31: while the liked-notes handler runs, its retry counter is the number
\* of consecutive failed attempts since the last page it processed (so a
\* processed page resets it to 0) and is at most 2; before the 2nd attempt
\* of a page it has slept 2000 ms and before the 3rd 4000 ms; a 3rd
\* consecutive failure ends the invocation with the failure message, and
\* no page is attempted a 4th time.
C31_PageRetryBounded ==
  h.kind = "GetUserLikedNotesTool"
  => /\ TrailingFailures(h.served) <= 3
     /\ LikedRunning
        => /\ h.retryCount = TrailingFailures(h.served)
           /\ h.retryCount <= 2
     /\ (h.pc = "loop" /\ h.retryCount = 1) => h.slept = 2000
     /\ (h.pc = "loop" /\ h.retryCount = 2) => h.slept = 4000
     /\ TrailingFailures(h.served) = 3
        => (h.pc = "done" /\ h.out.kind = "error")

C31_Witness ==
  /\ h.kind = "GetUserLikedNotesTool"
  /\ h.pc = "done"
  /\ h.out.kind = "error"
  /\ Len(h.served) = 4
  /\ h.served[1].type = "page"
  /\ TrailingFailures(h.served) = 3

\* a step in which the liked-notes handler is served a failed attempt
LikedFailure ==
  /\ h.kind = "GetUserLikedNotesTool"
  /\ h.pc = "await"
  /\ h'.pc # "await"
  /\ FailedAttempt(Last(h'.served))

\* a failed attempt leaves the results and the cursor as they were
RetryKeepsState ==
  [][LikedFailure => (h'.results = h.results /\ h'.cursor = h.cursor)]_vars

\* every request of the liked-notes handler carries its current cursor
RetrySameCursor ==
  (h.kind = "GetUserLikedNotesTool" /\ h.pc = "await") => h.req.key = h.cursor

\* no item occurs twice among the collected results
ItemsOnce ==
  \A i \in 1..Len(h.results), j \in 1..Len(h.results) :
    i # j => h.results[i] # h.results[j]

\* C32: in the liked-notes handler a failed attempt changes neither the
\* results nor the cursor, the retry asks for the same cursor again, and no
\* item is collected twice.
C32_RetryKeepsProgress ==
  /\ RetryKeepsState
  /\ [](RetrySameCursor)
  /\ [](h.kind = "GetUserLikedNotesTool" => ItemsOnce)

\* the last answer says that more pages remain
MoreRemain ==
  /\ Len(h.served) > 0
  /\ Last(h.served).type = "page"
  /\ Len(Last(h.served).items) > 0
  /\ Last(h.served).hasMore

\* C35: the collected-notes handler issues at most 100 page requests in one
\* invocation, and an invocation asked for all notes that ends after its
\* 100th request was answered with more pages to come returns an error
\* message.
C35_RequestLimit ==
  h.kind = "GetCollectNotesTool"
  => /\ h.requests <= maxRequests
     /\ h.requestCount <= h.requests
     /\ (h.pc = "done" /\ h.count = -1 /\ MoreRemain)
        => (h.requests = maxRequests /\ h.out.kind = "error" /\ h.out.items = <<>>)

C35_Witness ==
  /\ h.kind = "GetCollectNotesTool"
  /\ h.count = -1
  /\ h.pc = "done"
  /\ h.requests = maxRequests
  /\ Len(h.served) = maxRequests
  /\ MoreRemain
  /\ h.out.kind = "error"

---------------------------------------------------------------------------
(* Properties of the action and account tools *)

Pending(c) == c.pc \in {"enter", "loc", "exec"}

\* the evalJs calls of the invocation that are in flight
InFlight ==
  (IF Pending(call) THEN 1 ELSE 0)
  + Cardinality({i \in 1..Len(calls) : Pending(calls[i])})

\* the required ID of an action tool is valid: non-blank for a note ID,
\* 24 characters for a user ID
RequiredOk(kind, id) ==
  IF kind \in {"FollowUserTool", "FollowuserTool"}
  THEN id.len = 24
  ELSE id.len > 0 /\ ~id.blank

\* C13: no tool handler lets an exception escape: a finished invocation has
\* returned a value, it has not thrown.
C13_NoExceptionEscapes ==
  h.pc = "done" => h.out.kind # "throw"

\* C14: an invocation with an invalid required input issues no bridge call
\* and what it returns is an error message.
C14_ValidatesBeforeIO ==
  (h.kind \in ActionKinds /\ ~RequiredOk(h.kind, h.input.id))
  => (/\ h.requests = 0
      /\ (h.pc = "done" /\ h.out.kind # "throw") => h.out.kind = "error")

\* C15: at every moment at most one evalJs call of a tool invocation is in
\* flight.
C15_OneCallAtATime ==
  InFlight <= 1

\* the endpoints that apply an action and those that undo it
ApplyEndpoints == {"note/like", "user/follow", "note/collect"}
UndoEndpoints == {"note/dislike", "user/unfollow", "note/uncollect"}

\* C21: an action handler invoked with a valid ID issues one POST, to the
\* endpoint its flag selects, whatever was invoked before; FollowUserTool
\* with follow = false posts to the unfollow endpoint and, when the POST
\* resolves, returns a success envelope with action 'unfollow'.
C21_OnePostByFlag ==
  (h.kind \in ActionKinds /\ RequiredOk(h.kind, h.input.id))
  => /\ h.requests <= 1
     /\ h.pc \in {"await", "done"}
        => /\ h.requests = 1
           /\ h.req.ep \in (IF h.input.flag THEN ApplyEndpoints ELSE UndoEndpoints)
     /\ (h.kind = "FollowUserTool" /\ ~h.input.flag /\ h.pc = "done")
        => /\ h.req.ep = "user/unfollow"
           /\ h.out.action = "unfollow"
           /\ Last(h.served).type # "reject" => h.out.kind = "json"

C21_Witness ==
  /\ h.kind = "FollowUserTool"
  /\ h.input = [id |-> ValidId, flag |-> FALSE]
  /\ h.before = "user/follow"
  /\ h.pc = "done"
  /\ h.requests = 1
  /\ h.out.kind = "json"
  /\ h.out.action = "unfollow"

\* C34: each of the calls in flight together keeps its own retry count: it
\* is the number of marker-bearing answers that call itself received, the
\* call evaluates its code at most 4 times, a call that gave up received 4
\* marker-bearing answers itself, and what a call returns otherwise is an
\* answer of the site to its own request code.
C34_RetryCountPerCall ==
  \A i \in 1..Len(calls) :
    /\ calls[i].tryCount = Markers(calls[i])
    /\ calls[i].evals <= MaxTries + 1
    /\ calls[i].pc = "ret"
       => \/ calls[i].result = ExhaustedMsg /\ Markers(calls[i]) = MaxTries + 1
          \/ calls[i].result \in Backend(calls[i].code) \ {RateLimited}

C34_Witness ==
  /\ Len(calls) = 2
  /\ calls[1].pc = "ret"
  /\ calls[1].result = ExhaustedMsg
  /\ calls[2].pc = "ret"
  /\ calls[2].result = SelfInfo
  /\ calls[2].tryCount = 1
  /\ calls[2].evals = 2

\* an action handler has returned after its POST settled
ActionSettled == h.kind \in ActionKinds /\ h.pc = "done" /\ h.requests = 1

\* C36: an action handler whose POST resolved returns its success message
\* (the success envelope for FollowUserTool), whatever the value, the
\* bridge's retry-exhausted message included; it returns its failure message
\* exactly when the POST was rejected.
C36_ResolvedMeansSuccess ==
  ActionSettled
  => /\ Last(h.served).type # "reject"
        => h.out.kind = (IF h.kind = "FollowUserTool" THEN "json" ELSE "text")
     /\ Last(h.served).type = "reject" => h.out.kind = "error"

C36_Witness ==
  /\ ActionSettled
  /\ h.kind = "LikeNoteActionTool"
  /\ Last(h.served) = ExhaustedMsg
  /\ h.out.kind = "text"

---------------------------------------------------------------------------
(* Properties of the browser session *)

\* the windows constructed so far that have not been destroyed
Alive == {i \in 1..Len(windows) : windows[i].alive}

\* C16: at most one browser window has been created and is still alive,
\* whatever getBrowser calls, evalJs calls, close attempts and enable/disable
\* changes came before.
C16_SingleSession ==
  Cardinality(Alive) <= 1

\* a step that hides the window the variable browser holds
Hides ==
  /\ browser # 0
  /\ browser' = browser
  /\ windows[browser].visible
  /\ ~windows'[browser].visible

\* C17: a close attempt only hides the window: no window is destroyed, none
\* is constructed, and getBrowser answers after the attempt with the window
\* it answered with before it.
C17_CloseOnlyHides ==
  [][Hides =>
       /\ Len(windows') = Len(windows)
       /\ \A i \in 1..Len(windows) : windows[i].alive => windows'[i].alive
       /\ getBrowser(browser', windows').browser
            = getBrowser(browser, windows).browser]_vars

C17_Witness ==
  /\ browser = 1
  /\ Len(windows) = 1
  /\ windows[1].by = "close"
  /\ windows[1].alive /\ windows[1].enabled /\ ~windows[1].visible
  /\ call.pc = "loc"
  /\ call.win = 1

\* C18: a step in which the session window navigates to a URL on the
\* login/verification path leaves that window visible, hidden or shown as
\* it was before.
C18_LoginNavigationShows ==
  [][(/\ browser # 0
      /\ browser' = browser
      /\ windows'[browser].href # windows[browser].href
      /\ includes(windows'[browser].href, LoginPath))
     => windows'[browser].visible]_vars

C18_Witness ==
  /\ browser # 0
  /\ windows[browser].by = "did-navigate"
  /\ windows[browser].href = LoginUrl
  /\ windows[browser].visible

\* C19: every verification wait of a bridge call leaves the window of the
\* call visible: a location check that reads the captcha path and goes to
\* sleep does so with the window on screen.
C19_StallShowsWindow ==
  [][(call.pc = "loc" /\ call'.pc = "enter" /\ Waits(call') > Waits(call))
     => windows'[call.win].visible]_vars

\* C20: a window that getBrowser has constructed and that neither a
\* login/verification navigation nor the operator has shown since is not
\* visible.
C20_NewSessionHidden ==
  \A i \in 1..Len(windows) : windows[i].by = "create" => ~windows[i].visible

---------------------------------------------------------------------------
(* Properties of the export directory and the configuration file *)

\* the export files other than the one at path
Others(d, path) == {f \in d.files : f.path # path}

\* C22: downloadCsvData called while the export directory is empty returns
\* a non-empty error and leaves the disk as it was; called with a directory
\* set it returns an empty error and a link under that directory, and the
\* file at the link is the one file it wrote.
C22_ExportNeedsDirectory ==
  ret.op = "downloadCsvData"
  => IF ret.dir = ""
     THEN /\ ret.value.error # ""
          /\ disk = ret.before
     ELSE /\ ret.value.error = ""
          /\ ret.value.link.dir = ret.dir
          /\ \E f \in disk.files : f.path = ret.value.link
          /\ Others(disk, ret.value.link) = Others(ret.before, ret.value.link)
          /\ disk.config = ret.before.config

C22_Witness ==
  /\ ret.op = "downloadCsvData"
  /\ ret.prev = [op |-> "setSaveDataPath", arg |-> ""]
  /\ ret.dir = ""
  /\ ret.value.error = NoDirText
  /\ \E f \in disk.files : f.path = join("/data", <<"notes", Csv>>)
  /\ disk = ret.before

\* the configuration a call found: the default one when the file was absent
Found(d) == IF d.config = Absent THEN DefaultConfig ELSE parse(d.config)

\* C27: loadConfig on a missing file writes the default content and returns
\* it, and on a present file returns the stored content and writes nothing;
\* a get-joined-test that follows set-joined-test(v) returns v, and
\* set-joined-test changes no other key of the file.
C27_ConfigStore ==
  /\ ret.op = "loadConfig"
     => /\ ret.value = Found(ret.before)
        /\ disk.config = stringify(Found(ret.before))
        /\ ret.before.config # Absent => disk = ret.before
  /\ ret.op \in {"loadConfig", "get-joined-test", "set-joined-test"}
     => disk.config # Absent
  /\ (ret.op = "get-joined-test" /\ ret.prev.op = "set-joined-test")
     => ret.value = ret.prev.arg
  /\ ret.op = "set-joined-test"
     => LET old == Found(ret.before)
            new == parse(disk.config)
        IN /\ DOMAIN new = DOMAIN old \cup {"isTest"}
           /\ new["isTest"] = ret.arg
           /\ \A k \in DOMAIN old \ {"isTest"} : new[k] = old[k]

C27_Witness ==
  /\ ret.op = "get-joined-test"
  /\ ret.prev = [op |-> "set-joined-test", arg |-> TRUE]
  /\ ret.value = TRUE
  /\ DOMAIN parse(disk.config) = {"isTest", "theme"}
  /\ parse(disk.config)["theme"] = "light"

---------------------------------------------------------------------------
(* Properties of jsonToCsv *)

Converted == csv.out # NotRun

\* the cells of the converted rows, with their row and column
Cells ==
  {[r |-> r, c |-> c] : r \in 1..Len(csv.out.rows), c \in 1..Len(csv.fields)}
CellAt(p) == csv.out.rows[p.r][p.c]

Special(chars) ==
  \E i \in 1..Len(chars) : chars[i] \in {Comma, Quote, Newline}

\* the text between the enclosing quotes read back: every pair of double
\* quotes is one double quote, a lone double quote is not allowed
RECURSIVE Undouble(_)
Undouble(chars) ==
  IF chars = <<>> THEN <<>>
  ELSE IF Head(chars) # Quote THEN <<Head(chars)>> \o Undouble(Tail(chars))
  ELSE IF Len(chars) >= 2 /\ chars[2] = Quote
  THEN <<Quote>> \o Undouble(Tail(Tail(chars)))
  ELSE <<"lone quote">>

Enclosed(text) == Len(text) >= 2 /\ text[1] = Quote /\ text[Len(text)] = Quote

\* text is the CSV cell of the string value
QuotedCellOf(text, value) ==
  IF Special(value)
  THEN Enclosed(text) /\ Undouble(SubSeq(text, 2, Len(text) - 1)) = value
  ELSE text = value

\* C24: every emitted cell is its value wrapped in double quotes with the
\* embedded double quotes doubled exactly when the value holds a comma, a
\* double quote or a newline, and is the bare value otherwise; the value of
\* an array field is the joined string.
C24_CellsQuoted ==
  Converted => \A p \in Cells : QuotedCellOf(CellAt(p).text, toText(CellAt(p).joined))

C24_Witness ==
  /\ Converted
  /\ \E p \in Cells :
       /\ CellAt(p).found.t = "string"
       /\ CellAt(p).found.v = <<"a", Comma, "b">>
       /\ CellAt(p).text = <<Quote, "a", Comma, "b", Quote>>
  /\ \E p \in Cells : CellAt(p).text = <<"7">>

\* the text of a cell with its CSV quoting taken off
Unquoted(text) ==
  IF Enclosed(text) THEN Undouble(SubSeq(text, 2, Len(text) - 1)) ELSE text

\* the elements of an array as text, objects JSON-serialised
ElementTexts(a) ==
  [i \in 1..Len(a.v) |->
     IF a.v[i].t = "object" THEN JSONstringify(a.v[i]) ELSE toText(a.v[i])]

\* C25: a field that resolves to a nested object is emitted as the JSON
\* serialisation of the object, and a field that resolves to an array as
\* its elements joined by ';'.
C25_ObjectsSerialised ==
  Converted
  => \A p \in Cells :
       /\ CellAt(p).found.t = "object"
          => Unquoted(CellAt(p).text) = JSONstringify(CellAt(p).found)
       /\ CellAt(p).found.t = "array"
          => Unquoted(CellAt(p).text) = joinWith(ElementTexts(CellAt(p).found), Semicolon)

\* the same JSON value
Same(x, y) == x.t = y.t /\ x.v = y.v

\* the positions of '@' in a field spec
Ats(field) == {i \in 1..Len(field) : field[i] = "@"}

\* the value at the end of a path of keys, '' when a key is missing
RECURSIVE Lookup(_, _)
Lookup(value, keys) ==
  IF keys = <<>> THEN value
  ELSE LET here == IF value.t = "object"
                   THEN {i \in 1..Len(value.v) : value.v[i].k = Head(keys)}
                   ELSE {}
       IN IF here = {} THEN Str_(<<>>)
          ELSE Lookup(value.v[CHOOSE i \in here : TRUE].v, Tail(keys))

\* C26: a field spec without '@' is its own header and source path; a spec
\* 'header@path' shows header in the header line and its cells hold the
\* value found by descending path, '' when a segment is missing.
C26_HeaderAndPath ==
  Converted
  => \A c \in 1..Len(csv.fields) :
       LET field == csv.fields[c]
           at == CHOOSE i \in Ats(field) : TRUE
           header == IF Ats(field) = {} THEN field ELSE SubSeq(field, 1, at - 1)
           path == IF Ats(field) = {} THEN field
                   ELSE SubSeq(field, at + 1, Len(field))
       IN Cardinality(Ats(field)) <= 1
          => /\ csv.out.headers[c] = header
             /\ \A r \in 1..Len(csv.jsonData) :
                  Same(csv.out.rows[r][c].found,
                       Lookup(csv.jsonData[r], split(path, ".")))

C26_Witness ==
  /\ Converted
  /\ csv.fields = << <<"liked_count">>, <<"title", "@", "note", ".", "title">> >>
  /\ csv.out.headers = << <<"liked_count">>, <<"title">> >>
  /\ csv.out.rows[1][1].text = <<"7">>
  /\ csv.out.rows[1][2].text = <<"a">>

---------------------------------------------------------------------------
(* Properties of the MCP server handle *)

\* the server made by the most recent start-mcpserver
Newest == Len(mcp.servers)

\* C37: whenever the server made by the most recent start-mcpserver is
\* running, the handle mcpServer refers to it.
C37_HandleFollowsNewest ==
  (Newest > 0 /\ mcp.servers[Newest].IsRunning) => mcp.mcpServer = Newest

====
